---------------------------- MODULE Spec2Model ----------------------------
(***************************************************************************)
(* Model of the billing code: CustomerServlet (customer_servlet.py),       *)
(* InvoiceDAO (invoice_dao.py) and PaymentProcessor (payment_processor.py).*)
(*                                                                         *)
(* Spec      : CustomerServlet and InvoiceDAO, every handler one action.   *)
(* ConcSpec  : two threads inside approve_credit_increase, statement by    *)
(*             statement.                                                  *)
(* PaySpec   : PaymentProcessor with its background threads and a clock.   *)
(*                                                                         *)
(* Python values: True / False / a propagated exception are the strings    *)
(* "true" / "false" / "raise".  Timestamps (datetime.now()) are left out   *)
(* of the records: no branch of the code reads them.                       *)
(***************************************************************************)
EXTENDS Integers, Sequences, FiniteSets, TLC

VARIABLES
    customers,   \* CustomerServlet.customers: dict customer_id -> customer dict
    invoices,    \* the invoices table of billing.db, rows in insertion order
    ret,         \* what the last CustomerServlet / InvoiceDAO call returned
    th,          \* ConcSpec: the locals of each thread in approve_credit_increase
    limit0,      \* ConcSpec: customers at the moment the threads were started
    calls,       \* PaySpec: per process_payment call, the handler it ran and its result
    req,         \* PaySpec: the arguments of the latest process_payment call, and what
                 \* the store (db) and the notifier (nf) answer to its handler
    payments,    \* PaySpec: the payments table of billing.db, rows in insertion order
    notices,     \* PaySpec: the notifier calls made, in order
    bg,          \* PaySpec: per call, its process() thread (medium tier only)
    joinTimer    \* PaySpec: time left of t.join(timeout=5) in the call under way

custVars == <<customers, invoices, ret, th, limit0>>
payVars == <<calls, req, payments, notices, bg, joinTimer>>

vars == <<customers, invoices, ret, th, limit0,
          calls, req, payments, notices, bg, joinTimer>>

----------------------------------------------------------------------------
(* Bounds and input domains *)

MaxInvoices == 3
MaxDebt == 2

CustomerIds == {"c1"}
Names == {"Ann"}
Emails == {"e1", "e2"}
Phones == {"p1", "p2"}
Ages == {17, 18}
CreateLimits == {-1000, 5000, 8000}
NewLimits == {-1000, 0, 6000}
Increases == {-1000, 3000, 5000, 5001}
Reasons == {"moved"}
(* the create_invoice calls tried: (customer_id, amount, status); "c2" owns
   rows in billing.db without being a key of CustomerServlet.customers *)
InvoiceInputs == {<<"c1", 100, "late">>, <<"c1", 100, "paid">>, <<"c2", 100, "late">>}
DbOutcomes == {"ok", "error"}
Threads == {"t1", "t2"}

(* Program constants *)
MinAge == 18
MaxSingleIncrease == 5000
MaxTotalLimit == 10000
MaxLatePayments == 2

----------------------------------------------------------------------------
(* Python dict item assignment d[k] = v *)
DictSet(d, k, v) == (k :> v) @@ d

Reverse(s) == [i \in 1..Len(s) |-> s[Len(s) + 1 - i]]

(* InvoiceDAO.get_invoices_by_customer when the query succeeds: the rows of
   the customer, newest first *)
get_invoices_by_customer(customer_id) ==
    Reverse(SelectSeq(invoices, LAMBDA row : row.customer_id = customer_id))

(* the late_payments loop of approve_credit_increase *)
LatePayments(invs) ==
    Cardinality({i \in 1..Len(invs) : invs[i].status = "late"})

(* mutant: the total-limit rule written with >= *)
PassesLimitRules_CeilingExclusive(age, current_limit, requested_increase) ==
    /\ ~(age < MinAge)
    /\ ~(requested_increase > MaxSingleIncrease)
    /\ ~(current_limit + requested_increase >= MaxTotalLimit)

(* the three rules approve_credit_increase checks before it reads invoices *)
PassesLimitRules(age, current_limit, requested_increase) ==
    /\ ~(age < MinAge)
    /\ ~(requested_increase > MaxSingleIncrease)
    /\ ~(current_limit + requested_increase > MaxTotalLimit)

TooManyLate(invs) == LatePayments(invs) > MaxLatePayments

ApprovedLimit(current_limit, requested_increase) ==
    current_limit + requested_increase

Returned(op, customer_id, arg, result) ==
    [op |-> op, customer_id |-> customer_id, arg |-> arg, result |-> result]

----------------------------------------------------------------------------
(* CustomerServlet, one action per handler *)

create_customer(customer_id, name, email, phone, age, credit_limit) ==
    /\ customers' = DictSet(customers, customer_id,
                        [customer_id |-> customer_id, name |-> name,
                         email |-> email, phone |-> phone, age |-> age,
                         credit_limit |-> credit_limit, status |-> "active"])
    /\ ret' = Returned("create_customer", customer_id, credit_limit, "true")
    /\ UNCHANGED <<invoices, th, limit0, payVars>>

update_email(customer_id, new_email) ==
    /\ IF customer_id \in DOMAIN customers
       THEN /\ customers' = DictSet(customers, customer_id,
                                DictSet(customers[customer_id], "email", new_email))
            /\ ret' = Returned("update_email", customer_id, new_email, "true")
       ELSE /\ UNCHANGED customers
            /\ ret' = Returned("update_email", customer_id, new_email, "false")
    /\ UNCHANGED <<invoices, th, limit0, payVars>>

update_phone(customer_id, new_phone) ==
    /\ IF customer_id \in DOMAIN customers
       THEN /\ customers' = DictSet(customers, customer_id,
                                DictSet(customers[customer_id], "phone", new_phone))
            /\ ret' = Returned("update_phone", customer_id, new_phone, "true")
       ELSE /\ UNCHANGED customers
            /\ ret' = Returned("update_phone", customer_id, new_phone, "false")
    /\ UNCHANGED <<invoices, th, limit0, payVars>>

update_credit_limit(customer_id, new_limit) ==
    /\ IF customer_id \in DOMAIN customers /\ new_limit > 0
       THEN /\ customers' = DictSet(customers, customer_id,
                                DictSet(customers[customer_id], "credit_limit", new_limit))
            /\ ret' = Returned("update_credit_limit", customer_id, new_limit, "true")
       ELSE /\ UNCHANGED customers
            /\ ret' = Returned("update_credit_limit", customer_id, new_limit, "false")
    /\ UNCHANGED <<invoices, th, limit0, payVars>>

(* the whole of approve_credit_increase, run without interruption; db is the
   outcome of the invoice query, which is only issued once the first rules
   have passed.  Negative increases are followed down to -1000 * MaxDebt. *)
approve_credit_increase(customer_id, requested_increase, db) ==
    /\ IF customer_id \notin DOMAIN customers
       THEN /\ UNCHANGED customers
            /\ ret' = Returned("approve_credit_increase", customer_id,
                               requested_increase, "false")
       ELSE LET customer == customers[customer_id]
                current_limit == customer.credit_limit
                age == customer.age
            IN  IF ~PassesLimitRules(age, current_limit, requested_increase)
                THEN /\ UNCHANGED customers
                     /\ ret' = Returned("approve_credit_increase", customer_id,
                                        requested_increase, "false")
                ELSE IF db = "error"
                THEN /\ UNCHANGED customers
                     /\ ret' = Returned("approve_credit_increase", customer_id,
                                        requested_increase, "raise")
                ELSE IF TooManyLate(get_invoices_by_customer(customer_id))
                THEN /\ UNCHANGED customers
                     /\ ret' = Returned("approve_credit_increase", customer_id,
                                        requested_increase, "false")
                ELSE /\ ApprovedLimit(current_limit, requested_increase) >= -(MaxDebt * 1000)
                     /\ customers' = DictSet(customers, customer_id,
                            DictSet(customer, "credit_limit",
                                    ApprovedLimit(current_limit, requested_increase)))
                     /\ ret' = Returned("approve_credit_increase", customer_id,
                                        requested_increase, "true")
    /\ UNCHANGED <<invoices, th, limit0, payVars>>

(* mutant: the loop of close_account counts pending invoices only *)
RECURSIVE TotalOutstanding_PendingOnly(_)
TotalOutstanding_PendingOnly(invs) ==
    IF invs = <<>> THEN 0
    ELSE (IF Head(invs).status = "pending" THEN Head(invs).amount ELSE 0)
         + TotalOutstanding_PendingOnly(Tail(invs))

(* the total_outstanding loop of close_account *)
RECURSIVE TotalOutstanding(_)
TotalOutstanding(invs) ==
    IF invs = <<>> THEN 0
    ELSE (IF Head(invs).status = "pending" \/ Head(invs).status = "late"
          THEN Head(invs).amount ELSE 0) + TotalOutstanding(Tail(invs))

close_account(customer_id, reason, db) ==
    /\ IF customer_id \notin DOMAIN customers
       THEN /\ UNCHANGED customers
            /\ ret' = Returned("close_account", customer_id, reason, "false")
       ELSE IF db = "error"
       THEN /\ UNCHANGED customers
            /\ ret' = Returned("close_account", customer_id, reason, "raise")
       ELSE IF TotalOutstanding(get_invoices_by_customer(customer_id)) > 0
       THEN /\ UNCHANGED customers
            /\ ret' = Returned("close_account", customer_id, reason, "false")
       ELSE /\ customers' = DictSet(customers, customer_id,
                    DictSet(DictSet(customers[customer_id], "status", "closed"),
                            "close_reason", reason))
            /\ ret' = Returned("close_account", customer_id, reason, "true")
    /\ UNCHANGED <<invoices, th, limit0, payVars>>

(* what a call that returns a number leaves in ret *)
ReturnedValue(op, customer_id, value) ==
    [op |-> op, customer_id |-> customer_id, arg |-> 0, result |-> "value",
     value |-> value]

(* mutant: the loop of calculate_available_credit excludes paid invoices only *)
RECURSIVE TotalUsed_CountsCancelled(_)
TotalUsed_CountsCancelled(invs) ==
    IF invs = <<>> THEN 0
    ELSE (IF Head(invs).status # "paid" THEN Head(invs).amount ELSE 0)
         + TotalUsed_CountsCancelled(Tail(invs))

(* the total_used loop of calculate_available_credit *)
RECURSIVE TotalUsed(_)
TotalUsed(invs) ==
    IF invs = <<>> THEN 0
    ELSE (IF Head(invs).status # "paid" /\ Head(invs).status # "cancelled"
          THEN Head(invs).amount ELSE 0) + TotalUsed(Tail(invs))

(* the invoice query has no try around it: its exception reaches the caller *)
calculate_available_credit(customer_id, db) ==
    /\ ret' = IF customer_id \notin DOMAIN customers
              THEN ReturnedValue("calculate_available_credit", customer_id, 0)
              ELSE IF db = "error"
              THEN Returned("calculate_available_credit", customer_id, 0, "raise")
              ELSE ReturnedValue("calculate_available_credit", customer_id,
                       customers[customer_id].credit_limit
                       - TotalUsed(get_invoices_by_customer(customer_id)))
    /\ UNCHANGED <<customers, invoices, th, limit0, payVars>>

(* InvoiceDAO.create_invoice: the INSERT, or False when the database fails *)
create_invoice(customer_id, amount, status, db) ==
    /\ Len(invoices) < MaxInvoices
    /\ IF db = "ok"
       THEN /\ invoices' = Append(invoices, [customer_id |-> customer_id,
                                             amount |-> amount, status |-> status])
            /\ ret' = Returned("create_invoice", customer_id, amount, "true")
       ELSE /\ UNCHANGED invoices
            /\ ret' = Returned("create_invoice", customer_id, amount, "false")
    /\ UNCHANGED <<customers, th, limit0, payVars>>

----------------------------------------------------------------------------
(* approve_credit_increase statement by statement, for threads that run it
   at the same time.  `customer` is a reference to the stored dict, so the
   final assignment writes the store; current_limit and age are copies. *)

IdleThread == [pc |-> "idle", customer_id |-> "", requested_increase |-> 0,
               current_limit |-> 0, age |-> 0, result |-> "none"]

(* lines 74-91: the lookup, the reads and the rules that need no invoice *)
approve_begin(t, customer_id, requested_increase) ==
    /\ th[t].pc = "idle"
    /\ IF customer_id \notin DOMAIN customers
       THEN th' = [th EXCEPT ![t] = [IdleThread EXCEPT !.pc = "done",
                        !.customer_id = customer_id,
                        !.requested_increase = requested_increase,
                        !.result = "false"]]
       ELSE LET customer == customers[customer_id]
                current_limit == customer.credit_limit
                age == customer.age
                me == [IdleThread EXCEPT !.customer_id = customer_id,
                        !.requested_increase = requested_increase,
                        !.current_limit = current_limit, !.age = age]
            IN  IF ~PassesLimitRules(age, current_limit, requested_increase)
                THEN th' = [th EXCEPT ![t] = [me EXCEPT !.pc = "done", !.result = "false"]]
                ELSE th' = [th EXCEPT ![t] = [me EXCEPT !.pc = "query"]]
    /\ UNCHANGED <<customers, invoices, ret, limit0, payVars>>

(* lines 94-102: the invoice query and the late-payment rule *)
approve_query(t, db) ==
    /\ th[t].pc = "query"
    /\ IF db = "error"
       THEN th' = [th EXCEPT ![t].pc = "done", ![t].result = "raise"]
       ELSE IF TooManyLate(get_invoices_by_customer(th[t].customer_id))
       THEN th' = [th EXCEPT ![t].pc = "done", ![t].result = "false"]
       ELSE th' = [th EXCEPT ![t].pc = "commit"]
    /\ UNCHANGED <<customers, invoices, ret, limit0, payVars>>

(* lines 105-106: the write of the limit computed from the copy read at 78 *)
approve_commit(t) ==
    /\ th[t].pc = "commit"
    /\ customers' = DictSet(customers, th[t].customer_id,
            DictSet(customers[th[t].customer_id], "credit_limit",
                    ApprovedLimit(th[t].current_limit, th[t].requested_increase)))
    /\ th' = [th EXCEPT ![t].pc = "done", ![t].result = "true"]
    /\ UNCHANGED <<invoices, ret, limit0, payVars>>

----------------------------------------------------------------------------
(* PaymentProcessor.  Strings that the code measures or slices are sequences
   of characters.  Time is in tenths of a second. *)

MaxCalls == 2

(* Program constants *)
SmallLimit == 100
MediumLimit == 1000
CardLength == 16
AuthCodeLength == 6
SimDelay == 1
ConfirmDelay == 300
JoinTimeout == 50

Str(n, first, rest) == [i \in 1..n |-> IF i = 1 THEN first ELSE rest]

PayCustomers == {"c1"}
PayAmounts == {0, 50, 100, 1000}
Visa == Str(16, "4", "1")
Master == Str(16, "5", "2")
Amex == Str(16, "3", "7")
ShortCard == Str(15, "4", "1")
LetterCard == Str(16, "4", "x")
Auth6 == Str(6, "7", "8")
Auth5 == Str(5, "7", "8")
Account == Str(6, "9", "0")
Routing == Str(3, "2", "6")
NoKeys == [note |-> "gift"]

(* the (method, metadata) pairs tried *)
PayInputs ==
    {<<"credit_card", m>> : m \in
        {[card_number |-> Visa], [card_number |-> Master], [card_number |-> Amex],
         [card_number |-> ShortCard], [card_number |-> LetterCard],
         [card_number |-> Visa, authorization_code |-> Auth6],
         [card_number |-> Visa, authorization_code |-> Auth5],
         NoKeys}}
    \cup {<<"bank_transfer", m>> : m \in
        {[account_number |-> Account, routing_number |-> Routing],
         [account_number |-> Account], [routing_number |-> Routing]}}
    \cup {<<"paypal", m>> : m \in {[email |-> "a@x"], NoKeys}}
    \cup {<<"crypto", NoKeys>>}

(* a write that waits for the database lock returns later than one that
   does not; sqlite3 waits up to 5 s for the lock *)
WriteDelays == {0, 50}
NotifyOutcomes == {"ok", "raise"}

(* str.startswith(ch) and s[-4:] *)
StartsWith(s, ch) == Len(s) >= 1 /\ s[1] = ch
Last4(s) == IF Len(s) <= 4 THEN s ELSE SubSeq(s, Len(s) - 3, Len(s))

(* the nested conditionals of process_payment: the handler it calls, or
   "reject" where it prints and returns False *)
Handler(amount, method, metadata) ==
    IF amount > 0
    THEN IF method = "credit_card"
         THEN IF "card_number" \in DOMAIN metadata
              THEN IF Len(metadata.card_number) = CardLength
                   THEN IF StartsWith(metadata.card_number, "4")
                           \/ StartsWith(metadata.card_number, "5")
                        THEN IF amount < SmallLimit
                             THEN "_process_small_payment"
                             ELSE IF amount < MediumLimit
                             THEN "_process_medium_payment"
                             ELSE IF "authorization_code" \in DOMAIN metadata
                                  THEN "_process_large_payment"
                                  ELSE "reject"
                        ELSE "reject"
                   ELSE "reject"
              ELSE "reject"
         ELSE IF method = "bank_transfer"
         THEN IF "account_number" \in DOMAIN metadata
              THEN IF "routing_number" \in DOMAIN metadata
                   THEN "_process_bank_transfer"
                   ELSE "reject"
              ELSE "reject"
         ELSE IF method = "paypal"
         THEN IF "email" \in DOMAIN metadata
              THEN "_process_paypal"
              ELSE "reject"
         ELSE "reject"
    ELSE "reject"

(* what a handler did: the rows it inserted, the notifier calls it made and
   the value it returned *)
Outcome(rows, notes, result) == [rows |-> rows, notes |-> notes, result |-> result]

_send_confirmation_email(call, customer_id, amount, nf, awaited) ==
    <<[call |-> call, kind |-> "confirmation", customer_id |-> customer_id,
       amount |-> amount, outcome |-> nf, awaited |-> awaited]>>

_notify_fraud_team(call, customer_id, amount, nf) ==
    <<[call |-> call, kind |-> "fraud", customer_id |-> customer_id,
       amount |-> amount, outcome |-> nf, awaited |-> TRUE]>>

(* mutant: the except clause of _process_small_payment returns True *)
_process_small_payment_SwallowsError(call, customer_id, amount, card_num, db) ==
    IF db = "ok"
    THEN Outcome(<<[call |-> call, customer_id |-> customer_id, amount |-> amount,
                    card_last4 |-> Last4(card_num), status |-> "completed"]>>,
                 <<>>, "true")
    ELSE Outcome(<<>>, <<>>, "true")

(* mutant: _process_small_payment sends the confirmation itself *)
_process_small_payment_Confirms(call, customer_id, amount, card_num, db) ==
    IF db = "ok"
    THEN Outcome(<<[call |-> call, customer_id |-> customer_id, amount |-> amount,
                    card_last4 |-> Last4(card_num), status |-> "completed"]>>,
                 _send_confirmation_email(call, customer_id, amount, "ok", TRUE),
                 "true")
    ELSE Outcome(<<>>, <<>>, "false")

_process_small_payment(call, customer_id, amount, card_num, db) ==
    IF db = "ok"
    THEN Outcome(<<[call |-> call, customer_id |-> customer_id, amount |-> amount,
                    card_last4 |-> Last4(card_num), status |-> "completed"]>>,
                 <<>>, "true")
    ELSE Outcome(<<>>, <<>>, "false")

(* mutant: the INSERT runs before the length of the code is checked *)
_process_large_payment_WritesFirst(call, customer_id, amount, card_num, auth_code, db, nf) ==
    IF db = "ok"
    THEN Outcome(<<[call |-> call, customer_id |-> customer_id, amount |-> amount,
                    card_last4 |-> Last4(card_num), auth_code |-> auth_code,
                    status |-> "pending_review"]>>,
                 IF Len(auth_code) # AuthCodeLength THEN <<>>
                 ELSE _notify_fraud_team(call, customer_id, amount, nf),
                 IF Len(auth_code) # AuthCodeLength \/ nf # "ok" THEN "false" ELSE "true")
    ELSE Outcome(<<>>, <<>>, "false")

(* mutant: the fraud team is not notified *)
_process_large_payment_NoFraudNotice(call, customer_id, amount, card_num, auth_code, db, nf) ==
    IF Len(auth_code) # AuthCodeLength
    THEN Outcome(<<>>, <<>>, "false")
    ELSE IF db = "ok"
    THEN Outcome(<<[call |-> call, customer_id |-> customer_id, amount |-> amount,
                    card_last4 |-> Last4(card_num), auth_code |-> auth_code,
                    status |-> "pending_review"]>>,
                 <<>>, "true")
    ELSE Outcome(<<>>, <<>>, "false")

(* mutant: the large tier sends the confirmation as well as the fraud alert *)
_process_large_payment_AlsoConfirms(call, customer_id, amount, card_num, auth_code, db, nf) ==
    IF Len(auth_code) # AuthCodeLength
    THEN Outcome(<<>>, <<>>, "false")
    ELSE IF db = "ok"
    THEN Outcome(<<[call |-> call, customer_id |-> customer_id, amount |-> amount,
                    card_last4 |-> Last4(card_num), auth_code |-> auth_code,
                    status |-> "pending_review"]>>,
                 _notify_fraud_team(call, customer_id, amount, nf)
                    \o _send_confirmation_email(call, customer_id, amount, nf, TRUE),
                 IF nf = "ok" THEN "true" ELSE "false")
    ELSE Outcome(<<>>, <<>>, "false")

(* the notifier is called inside the try block, after the commit: when it
   raises, the except clause returns False *)
_process_large_payment(call, customer_id, amount, card_num, auth_code, db, nf) ==
    IF Len(auth_code) # AuthCodeLength
    THEN Outcome(<<>>, <<>>, "false")
    ELSE IF db = "ok"
    THEN Outcome(<<[call |-> call, customer_id |-> customer_id, amount |-> amount,
                    card_last4 |-> Last4(card_num), auth_code |-> auth_code,
                    status |-> "pending_review"]>>,
                 _notify_fraud_team(call, customer_id, amount, nf),
                 IF nf = "ok" THEN "true" ELSE "false")
    ELSE Outcome(<<>>, <<>>, "false")

_process_bank_transfer(call, customer_id, amount, account_num, routing_num, db) ==
    IF db = "ok"
    THEN Outcome(<<[call |-> call, customer_id |-> customer_id, amount |-> amount,
                    account_last4 |-> Last4(account_num), routing |-> routing_num,
                    status |-> "processing"]>>,
                 <<>>, "true")
    ELSE Outcome(<<>>, <<>>, "false")

_process_paypal(call, customer_id, amount, email, db) ==
    IF db = "ok"
    THEN Outcome(<<[call |-> call, customer_id |-> customer_id, amount |-> amount,
                    paypal_email |-> email, status |-> "completed"]>>,
                 <<>>, "true")
    ELSE Outcome(<<>>, <<>>, "false")

NoProcess == [pc |-> "none", timer |-> 0, success |-> "false",
              customer_id |-> "", amount |-> 0, card_num |-> <<>>]

(* _process_medium_payment up to t.start(): the thread and its closure *)
StartedProcess(customer_id, amount, card_num) ==
    [pc |-> "sleep", timer |-> SimDelay, success |-> "false",
     customer_id |-> customer_id, amount |-> amount, card_num |-> card_num]

(* the caller is inside t.join(timeout=5) *)
Joining == calls # <<>> /\ calls[Len(calls)].result = "pending"

(* what the handlers that run in the caller's thread do *)
Dispatch(h, call, customer_id, amount, metadata, db, nf) ==
    CASE h = "_process_small_payment" ->
            _process_small_payment(call, customer_id, amount, metadata.card_number, db)
      [] h = "_process_large_payment" ->
            _process_large_payment(call, customer_id, amount, metadata.card_number,
                                   metadata.authorization_code, db, nf)
      [] h = "_process_bank_transfer" ->
            _process_bank_transfer(call, customer_id, amount, metadata.account_number,
                                   metadata.routing_number, db)
      [] h = "_process_paypal" ->
            _process_paypal(call, customer_id, amount, metadata.email, db)
      [] OTHER -> Outcome(<<>>, <<>>, "false")

(* the handlers that write from the caller's thread *)
WritingHandlers == {"_process_small_payment", "_process_large_payment",
                    "_process_bank_transfer", "_process_paypal"}

(* process_payment, to its return, or for the medium tier to t.join; db and
   nf are the answers of the store and of the notifier, and are only varied
   for the handlers that ask for them *)
process_payment(customer_id, amount, method, metadata, db, nf) ==
    /\ ~Joining
    /\ Len(calls) < MaxCalls
    /\ req' = [customer_id |-> customer_id, amount |-> amount,
               method |-> method, metadata |-> metadata, db |-> db, nf |-> nf]
    /\ LET call == Len(calls) + 1
           h == Handler(amount, method, metadata)
       IN  /\ db = "error" => h \in WritingHandlers
           /\ nf = "raise" => h = "_process_large_payment" /\ db = "ok"
           /\ IF h = "_process_medium_payment"
              THEN /\ calls' = Append(calls, [handler |-> h, result |-> "pending"])
                   /\ bg' = Append(bg, StartedProcess(customer_id, amount,
                                                      metadata.card_number))
                   /\ joinTimer' = JoinTimeout
                   /\ UNCHANGED <<payments, notices>>
              ELSE LET out == Dispatch(h, call, customer_id, amount, metadata, db, nf)
                   IN  /\ calls' = Append(calls, [handler |-> h, result |-> out.result])
                       /\ bg' = Append(bg, NoProcess)
                       /\ payments' = payments \o out.rows
                       /\ notices' = notices \o out.notes
                       /\ UNCHANGED joinTimer
    /\ UNCHANGED custVars

(* process(): time.sleep(0.1) is over, _process_small_payment starts and
   will take d *)
process_run(k, d) ==
    /\ k \in DOMAIN bg
    /\ bg[k].pc = "sleep" /\ bg[k].timer = 0
    /\ bg' = [bg EXCEPT ![k].pc = "write", ![k].timer = d]
    /\ UNCHANGED <<calls, req, payments, notices, joinTimer, custVars>>

(* process(): _process_small_payment returns into success[0] *)
process_persist(k, db) ==
    /\ k \in DOMAIN bg
    /\ bg[k].pc = "write" /\ bg[k].timer = 0
    /\ LET out == _process_small_payment(k, bg[k].customer_id, bg[k].amount,
                                         bg[k].card_num, db)
       IN  /\ payments' = payments \o out.rows
           /\ bg' = IF out.result = "true"
                    THEN [bg EXCEPT ![k].success = "true", ![k].pc = "wait",
                                    ![k].timer = ConfirmDelay]
                    ELSE [bg EXCEPT ![k].success = "false", ![k].pc = "done"]
    /\ UNCHANGED <<calls, req, notices, joinTimer, custVars>>

(* process(): time.sleep(30) is over, the confirmation is sent *)
process_confirm(k, nf) ==
    /\ k \in DOMAIN bg
    /\ bg[k].pc = "wait" /\ bg[k].timer = 0
    /\ notices' = notices \o _send_confirmation_email(k, bg[k].customer_id,
                        bg[k].amount, nf, calls[k].result = "pending")
    /\ bg' = [bg EXCEPT ![k].pc = "done"]
    /\ UNCHANGED <<calls, req, payments, joinTimer, custVars>>

(* mutant: the join, when it times out, also stops the thread *)
join_return_StopsThread ==
    /\ Joining
    /\ joinTimer = 0 \/ bg[Len(calls)].pc = "done"
    /\ calls' = [calls EXCEPT ![Len(calls)].result = bg[Len(calls)].success]
    /\ joinTimer' = 0
    /\ bg' = [bg EXCEPT ![Len(calls)].pc = "done"]
    /\ UNCHANGED <<req, payments, notices, custVars>>

(* t.join(timeout=5) returns, the thread over or not, and
   _process_medium_payment returns success[0] *)
join_return ==
    /\ Joining
    /\ joinTimer = 0 \/ bg[Len(calls)].pc = "done"
    /\ calls' = [calls EXCEPT ![Len(calls)].result = bg[Len(calls)].success]
    /\ joinTimer' = 0
    /\ UNCHANGED <<req, payments, notices, bg, custVars>>

(* time passes, up to the next moment a sleep, a write or the join ends *)
TimedPcs == {"sleep", "write", "wait"}

Timers ==
    {bg[k].timer : k \in {j \in DOMAIN bg : bg[j].pc \in TimedPcs}}
    \cup (IF Joining THEN {joinTimer} ELSE {})

Min(S) == CHOOSE x \in S : \A y \in S : x <= y

Tick ==
    /\ Timers # {}
    /\ 0 \notin Timers
    /\ ~(Joining /\ bg[Len(calls)].pc = "done")
    /\ LET d == Min(Timers)
       IN  /\ bg' = [k \in DOMAIN bg |->
                        IF bg[k].pc \in TimedPcs
                        THEN [bg[k] EXCEPT !.timer = @ - d] ELSE bg[k]]
           /\ joinTimer' = IF Joining THEN joinTimer - d ELSE joinTimer
    /\ UNCHANGED <<calls, req, payments, notices, custVars>>

----------------------------------------------------------------------------
NoThreads == [t \in Threads |-> IdleThread]
EmptyDict == <<>>

NoRequest == [customer_id |-> "", amount |-> 0, method |-> "", metadata |-> NoKeys,
              db |-> "ok", nf |-> "ok"]

InitPay ==
    /\ calls = <<>>
    /\ req = NoRequest
    /\ payments = <<>>
    /\ notices = <<>>
    /\ bg = <<>>
    /\ joinTimer = 0

Init ==
    /\ customers = EmptyDict
    /\ invoices = <<>>
    /\ ret = Returned("init", "", 0, "true")
    /\ th = NoThreads
    /\ limit0 = EmptyDict
    /\ InitPay

Next ==
    \/ \E c \in CustomerIds, n \in Names, e \in Emails, p \in Phones,
          a \in Ages, l \in CreateLimits : create_customer(c, n, e, p, a, l)
    \/ \E c \in CustomerIds, e \in Emails : update_email(c, e)
    \/ \E c \in CustomerIds, p \in Phones : update_phone(c, p)
    \/ \E c \in CustomerIds, l \in NewLimits : update_credit_limit(c, l)
    \/ \E c \in CustomerIds, i \in Increases, db \in DbOutcomes :
          approve_credit_increase(c, i, db)
    \/ \E c \in CustomerIds, r \in Reasons, db \in DbOutcomes : close_account(c, r, db)
    \/ \E i \in InvoiceInputs, db \in DbOutcomes : create_invoice(i[1], i[2], i[3], db)
    \/ \E c \in CustomerIds, db \in DbOutcomes : calculate_available_credit(c, db)

Spec == Init /\ [][Next]_vars

(* ConcSpec starts from a store that create_customer and create_invoice can
   have built, with both threads about to call approve_credit_increase *)
StoredCustomer(customer_id, age, credit_limit) ==
    [customer_id |-> customer_id, name |-> "Ann", email |-> "e1", phone |-> "p1",
     age |-> age, credit_limit |-> credit_limit, status |-> "active"]

LateRow(customer_id) == [customer_id |-> customer_id, amount |-> 100, status |-> "late"]

ConcStores ==
    {EmptyDict} \cup
    {("c1" :> StoredCustomer("c1", a, l)) : a \in Ages, l \in CreateLimits \cup {4000}}

ConcTables ==
    {<<>>, <<LateRow("c1"), LateRow("c1")>>, <<LateRow("c1"), LateRow("c1"), LateRow("c1")>>}

InitConc ==
    /\ customers \in ConcStores
    /\ invoices \in ConcTables
    /\ ret = Returned("init", "", 0, "true")
    /\ th = NoThreads
    /\ limit0 = customers
    /\ InitPay

NextConc ==
    \/ \E t \in Threads, c \in CustomerIds, i \in Increases : approve_begin(t, c, i)
    \/ \E t \in Threads, db \in DbOutcomes : approve_query(t, db)
    \/ \E t \in Threads : approve_commit(t)

ConcSpec == InitConc /\ [][NextConc]_vars

NextPay ==
    \/ \E c \in PayCustomers, a \in PayAmounts, i \in PayInputs,
          db \in DbOutcomes, nf \in NotifyOutcomes :
          process_payment(c, a, i[1], i[2], db, nf)
    \/ \E k \in 1..MaxCalls, d \in WriteDelays : process_run(k, d)
    \/ \E k \in 1..MaxCalls, db \in DbOutcomes : process_persist(k, db)
    \/ \E k \in 1..MaxCalls, nf \in NotifyOutcomes : process_confirm(k, nf)
    \/ join_return
    \/ Tick

PaySpec == Init /\ [][NextPay]_vars

(* FairPaySpec: the caller's thread and every started thread are scheduled
   (threading.Thread is not a daemon here, the interpreter waits for it),
   and time passes; nothing obliges a client to call process_payment *)
PayFairness ==
    /\ WF_vars(Tick)
    /\ WF_vars(join_return)
    /\ \A k \in 1..MaxCalls :
          /\ WF_vars(\E d \in WriteDelays : process_run(k, d))
          /\ WF_vars(\E db \in DbOutcomes : process_persist(k, db))
          /\ WF_vars(\E nf \in NotifyOutcomes : process_confirm(k, nf))

(* the calls that matter to the threads: card payments of the small and the
   medium tier, the thread steps and the passage of time *)
ThreadAmounts == {50, 100, 999}

NextPayThread ==
    \/ \E c \in PayCustomers, a \in ThreadAmounts, db \in DbOutcomes,
          nf \in NotifyOutcomes :
          process_payment(c, a, "credit_card", [card_number |-> Visa], db, nf)
    \/ \E k \in 1..MaxCalls, d \in WriteDelays : process_run(k, d)
    \/ \E k \in 1..MaxCalls, db \in DbOutcomes : process_persist(k, db)
    \/ \E k \in 1..MaxCalls, nf \in NotifyOutcomes : process_confirm(k, nf)
    \/ join_return
    \/ Tick

FairPaySpec == Init /\ [][NextPayThread]_vars /\ PayFairness

(* LedgerSpec starts from a store and an invoice table that create_customer
   and create_invoice can have built, with invoices of every status the
   two sums tell apart, and runs the two operations that read the table *)
LedgerLimits == {-1000, 1000}
LedgerReasons == {"moved", "fraud"}

LedgerRows ==
    {[customer_id |-> "c1", amount |-> 400, status |-> "pending"],
     [customer_id |-> "c1", amount |-> 200, status |-> "paid"],
     [customer_id |-> "c1", amount |-> 100, status |-> "late"],
     [customer_id |-> "c1", amount |-> 100, status |-> "cancelled"],
     [customer_id |-> "c1", amount |-> 100, status |-> "disputed"],
     [customer_id |-> "c1", amount |-> -400, status |-> "late"],
     [customer_id |-> "c2", amount |-> 400, status |-> "pending"]}

LedgerStores ==
    {EmptyDict} \cup {("c1" :> StoredCustomer("c1", 18, l)) : l \in LedgerLimits}

LedgerTables == UNION {[1..n -> LedgerRows] : n \in 0..MaxInvoices}

InitLedger ==
    /\ customers \in LedgerStores
    /\ invoices \in LedgerTables
    /\ ret = Returned("init", "", 0, "true")
    /\ th = NoThreads
    /\ limit0 = EmptyDict
    /\ InitPay

NextLedger ==
    \/ \E c \in CustomerIds, db \in DbOutcomes : calculate_available_credit(c, db)
    \/ \E c \in CustomerIds, r \in LedgerReasons, db \in DbOutcomes :
          close_account(c, r, db)

LedgerSpec == InitLedger /\ [][NextLedger]_vars

----------------------------------------------------------------------------
(* The five conditions of the credit-increase rules, on a store and a table *)
Eligible(store, table, c, inc) ==
    /\ c \in DOMAIN store
    /\ store[c].age >= 18
    /\ inc <= 5000
    /\ store[c].credit_limit + inc <= 10000
    /\ Cardinality({i \in DOMAIN table :
            table[i].customer_id = c /\ table[i].status = "late"}) <= 2

(* C1: two concurrent approve_credit_increase calls on one customer, each
   valid alone and together above 10000, that both return: exactly one
   returns approved and the other is rejected. *)
C1_ExactlyOneApproved ==
    \A t1, t2 \in Threads :
        (/\ t1 # t2
         /\ th[t1].pc = "done" /\ th[t2].pc = "done"
         /\ th[t1].result # "raise" /\ th[t2].result # "raise"
         /\ th[t1].customer_id = th[t2].customer_id
         /\ Eligible(limit0, invoices, th[t1].customer_id, th[t1].requested_increase)
         /\ Eligible(limit0, invoices, th[t2].customer_id, th[t2].requested_increase)
         /\ limit0[th[t1].customer_id].credit_limit
                + th[t1].requested_increase + th[t2].requested_increase > 10000)
        => (th[t1].result = "true") # (th[t2].result = "true")

(* C2: every stored customer's credit_limit is >= 0. *)
C2_CreditLimitNonNegative ==
    \A c \in DOMAIN customers : customers[c].credit_limit >= 0

(* C3: a customer id that is closed is never active again. *)
C3_ClosedStaysClosed ==
    [][\A c \in CustomerIds :
          (c \in DOMAIN customers /\ customers[c].status = "closed")
          => (c \in DOMAIN customers' /\ customers'[c].status = "closed")]_vars

(* C4 as claimed: an approve_credit_increase call returns approved exactly
   when the five conditions hold; approved adds exactly the increase, and
   anything else leaves the limit alone. *)
C4_ApprovedIffEligible ==
    [][ret'.op = "approve_credit_increase" =>
        LET c == ret'.customer_id
            inc == ret'.arg
        IN  /\ (ret'.result = "true") <=> Eligible(customers, invoices, c, inc)
            /\ ret'.result = "true" =>
                   customers'[c].credit_limit = customers[c].credit_limit + inc
            /\ ret'.result # "true" => customers' = customers]_vars

(* C4 amended: the same for every call that returns; a call whose invoice
   query raises has passed the first four rules, returns nothing and leaves
   the limit alone. *)
C4_ApprovedIffEligibleWhenReturns ==
    [][ret'.op = "approve_credit_increase" =>
        LET c == ret'.customer_id
            inc == ret'.arg
        IN  /\ ret'.result # "raise" =>
                   ((ret'.result = "true") <=> Eligible(customers, invoices, c, inc))
            /\ ret'.result = "raise" =>
                   Eligible(customers, <<>>, c, inc)
            /\ ret'.result = "true" =>
                   /\ customers'[c].credit_limit = customers[c].credit_limit + inc
                   /\ customers' = DictSet(customers, c,
                                     DictSet(customers[c], "credit_limit",
                                             customers'[c].credit_limit))
            /\ ret'.result # "true" => customers' = customers]_vars

(* an approval that lands exactly on the 10000 ceiling with two late invoices *)
C4_Witness ==
    /\ ret.op = "approve_credit_increase" /\ ret.result = "true"
    /\ customers[ret.customer_id].credit_limit = 10000
    /\ Cardinality({i \in DOMAIN invoices : invoices[i].customer_id = ret.customer_id
                                            /\ invoices[i].status = "late"}) = 2

----------------------------------------------------------------------------
(* Payment claims.  Last is the latest call; req holds its arguments. *)
Last == Len(calls)
RowsOf(k) == {i \in DOMAIN payments : payments[i].call = k}
NoticesOf(k) == {i \in DOMAIN notices : notices[i].call = k}
KindOf(k, kind) == {i \in NoticesOf(k) : notices[i].kind = kind}
Digits == {"0", "1", "2", "3", "4", "5", "6", "7", "8", "9"}

HasKey(r, key) == key \in DOMAIN r.metadata

(* a card request whose number is 16 digits starting with 4 or 5 *)
ValidCard(r) ==
    /\ r.method = "credit_card"
    /\ HasKey(r, "card_number")
    /\ Len(r.metadata.card_number) = 16
    /\ \A i \in DOMAIN r.metadata.card_number : r.metadata.card_number[i] \in Digits
    /\ r.metadata.card_number[1] \in {"4", "5"}

ValidAuth(r) ==
    HasKey(r, "authorization_code") /\ Len(r.metadata.authorization_code) = 6

(* the validation grounds on which process_payment rejects *)
FailsValidation(r) ==
    \/ r.amount <= 0
    \/ r.method \notin {"credit_card", "bank_transfer", "paypal"}
    \/ /\ r.method = "credit_card"
       /\ \/ ~HasKey(r, "card_number")
          \/ Len(r.metadata.card_number) # 16
          \/ ~(\E d \in {"4", "5"} : StartsWith(r.metadata.card_number, d))
          \/ r.amount >= 1000 /\ ~ValidAuth(r)
    \/ r.method = "bank_transfer"
       /\ (~HasKey(r, "account_number") \/ ~HasKey(r, "routing_number"))
    \/ r.method = "paypal" /\ ~HasKey(r, "email")

(* C5: a call that returned success has exactly one payment record in the
   store, from the moment it returns on. *)
C5_SuccessHasOneRecord ==
    \A k \in DOMAIN calls :
        calls[k].result = "true" => Cardinality(RowsOf(k)) = 1

(* a medium-tier call has returned success while its thread still sleeps *)
C5_Witness ==
    \E k \in DOMAIN calls :
        /\ calls[k].handler = "_process_medium_payment"
        /\ calls[k].result = "true"
        /\ bg[k].pc = "wait"
        /\ Cardinality(RowsOf(k)) = 1

(* C6: a request rejected on validation grounds returns False, writes no
   payment record and triggers no notification. *)
C6_RejectionWritesNothing ==
    (calls # <<>> /\ FailsValidation(req))
    => /\ calls[Last].result = "false"
       /\ RowsOf(Last) = {}
       /\ NoticesOf(Last) = {}

(* a large payment with a five-character code was rejected after an earlier
   call had written its record *)
C6_Witness ==
    /\ Last = 2
    /\ payments # <<>>
    /\ ValidCard(req) /\ req.amount >= 1000 /\ req.db = "ok"
    /\ HasKey(req, "authorization_code") /\ Len(req.metadata.authorization_code) = 5
    /\ calls[Last].result = "false"

(* C7: a valid card payment of 100 <= amount < 1000 whose record reaches the
   store is never reported failed, its confirmation is sent at most once,
   and it is sent while the caller is still in the bounded wait. *)
C7_MediumCompletedConfirmedInWait ==
    (calls # <<>> /\ ValidCard(req) /\ req.amount >= 100 /\ req.amount < 1000)
    => /\ RowsOf(Last) # {} => calls[Last].result # "false"
       /\ Cardinality(KindOf(Last, "confirmation")) <= 1
       /\ \A i \in KindOf(Last, "confirmation") : notices[i].awaited

(* C8 as claimed: a valid card payment of 1000 or more is rejected without
   a record when the code is missing or not 6 long, and otherwise leaves one
   pending_review record and exactly one fraud notification. *)
C8_LargeTier ==
    (calls # <<>> /\ ValidCard(req) /\ req.amount >= 1000)
    => IF ValidAuth(req)
       THEN /\ Cardinality(RowsOf(Last)) = 1
            /\ \A i \in RowsOf(Last) : payments[i].status = "pending_review"
            /\ Cardinality(KindOf(Last, "fraud")) = 1
       ELSE calls[Last].result = "false" /\ RowsOf(Last) = {}

(* C8 amended: the same when the store accepts the write; when the write
   fails the call is rejected with no record and no notification. *)
C8_LargeTierWhenStored ==
    (calls # <<>> /\ ValidCard(req) /\ req.amount >= 1000)
    => IF ValidAuth(req) /\ req.db = "ok"
       THEN /\ Cardinality(RowsOf(Last)) = 1
            /\ \A i \in RowsOf(Last) : payments[i].status = "pending_review"
            /\ Cardinality(KindOf(Last, "fraud")) = 1
            /\ NoticesOf(Last) = KindOf(Last, "fraud")
       ELSE /\ calls[Last].result = "false"
            /\ RowsOf(Last) = {}
            /\ NoticesOf(Last) = {}

(* a payment of exactly 1000 with a six-character code is under review *)
C8_Witness ==
    /\ calls # <<>> /\ ValidCard(req) /\ req.amount = 1000 /\ ValidAuth(req)
    /\ calls[Last].result = "true"
    /\ \E i \in RowsOf(Last) : payments[i].status = "pending_review"
    /\ Cardinality(KindOf(Last, "fraud")) = 1

(* C9 as claimed: a valid card payment of 0 <= amount < 100 succeeds with a
   completed record and no notification. *)
C9_SmallTier ==
    (calls # <<>> /\ ValidCard(req) /\ req.amount >= 0 /\ req.amount < 100)
    => /\ calls[Last].result = "true"
       /\ \E i \in RowsOf(Last) : payments[i].status = "completed"
       /\ NoticesOf(Last) = {}

(* C9 amended: for 0 < amount < 100, when the store accepts the write; when
   the write fails, and for amount 0, the call is rejected with no record;
   no notification in any of these cases. *)
C9_SmallTierPositiveWhenStored ==
    (calls # <<>> /\ ValidCard(req) /\ req.amount >= 0 /\ req.amount < 100)
    => /\ NoticesOf(Last) = {}
       /\ IF req.amount > 0 /\ req.db = "ok"
          THEN /\ calls[Last].result = "true"
               /\ Cardinality(RowsOf(Last)) = 1
               /\ \A i \in RowsOf(Last) : payments[i].status = "completed"
          ELSE calls[Last].result = "false" /\ RowsOf(Last) = {}

(* a small payment is completed while an earlier call's thread is alive *)
C9_Witness ==
    /\ Last = 2 /\ ValidCard(req) /\ req.amount = 50
    /\ calls[Last].result = "true"
    /\ \E i \in RowsOf(Last) : payments[i].status = "completed"
    /\ bg[1].pc = "wait"

(* C10: over the lifetime of a call, its thread included, at most one
   notification is triggered, and none for the small tier, bank transfers
   and wallet payments. *)
C10_AtMostOneNotification ==
    /\ \A k \in DOMAIN calls :
          /\ Cardinality(NoticesOf(k)) <= 1
          /\ calls[k].handler \in {"_process_small_payment", "_process_bank_transfer",
                                   "_process_paypal"} => NoticesOf(k) = {}
    /\ (calls # <<>> /\ (\/ req.method = "credit_card" /\ req.amount < 100
                         \/ req.method \in {"bank_transfer", "paypal"}))
       => NoticesOf(Last) = {}

(* the thread of an earlier medium call has sent its one confirmation after
   a later call ran *)
C10_Witness ==
    /\ Last = 2
    /\ calls[1].handler = "_process_medium_payment" /\ calls[1].result = "true"
    /\ bg[1].pc = "done"
    /\ Cardinality(KindOf(1, "confirmation")) = 1
    /\ ~notices[Len(notices)].awaited

(* C11: a call whose payment record is in the store and whose notifier
   raised is never reported as failed. *)
C11_NotifierFailureKeepsSuccess ==
    \A k \in DOMAIN calls :
        (/\ RowsOf(k) # {}
         /\ \E i \in NoticesOf(k) : notices[i].outcome = "raise")
        => calls[k].result # "false"

(* C12: a call that failed on the payment write and a call rejected on
   validation grounds never return the same value. *)
C12_StorageErrorDistinctFromRejection ==
    \A k \in DOMAIN calls :
        (/\ k # Last
         /\ calls[k].handler = "reject"
         /\ calls[Last].handler \in WritingHandlers
         /\ req.db = "error")
        => calls[k].result # calls[Last].result

----------------------------------------------------------------------------
(* Ledger claims.  SumAmounts adds the amounts of the rows of table at the
   indices I. *)
RECURSIVE SumAmounts(_, _)
SumAmounts(table, I) ==
    IF I = {} THEN 0
    ELSE LET i == CHOOSE j \in I : TRUE
         IN  table[i].amount + SumAmounts(table, I \ {i})

(* credit_limit minus the invoices of c that are neither paid nor cancelled *)
ExpectedAvailable(c) ==
    IF c \notin DOMAIN customers THEN 0
    ELSE customers[c].credit_limit
         - SumAmounts(invoices, {i \in DOMAIN invoices :
               /\ invoices[i].customer_id = c
               /\ invoices[i].status \notin {"paid", "cancelled"}})

(* C13 as claimed: calculate_available_credit returns 0 for an unknown
   customer and otherwise credit_limit minus the amounts of the customer's
   invoices that are neither paid nor cancelled, and changes no customer or
   invoice state. *)
C13_AvailableCredit ==
    [][ret'.op = "calculate_available_credit"
       => /\ ret'.result = "value"
          /\ ret'.value = ExpectedAvailable(ret'.customer_id)
          /\ customers' = customers /\ invoices' = invoices]_vars

(* C13: a calculate_available_credit call that returns, returns 0 for an
   unknown customer and otherwise credit_limit minus the amounts of the
   customer's invoices that are neither paid nor cancelled; a call that does
   not return is one on a known customer whose invoice query raised; either
   way no customer or invoice state changes. *)
C13_AvailableCreditWhenReturns ==
    [][ret'.op = "calculate_available_credit"
       => /\ ret'.result = "value"
             => ret'.value = ExpectedAvailable(ret'.customer_id)
          /\ ret'.result # "value"
             => ret'.result = "raise" /\ ret'.customer_id \in DOMAIN customers
          /\ customers' = customers /\ invoices' = invoices]_vars

(* limit 1000 with invoices 400 pending, 200 paid and 100 late gave 500 *)
C13_Witness ==
    /\ ret.op = "calculate_available_credit" /\ ret.result = "value"
    /\ "c1" \in DOMAIN customers /\ customers["c1"].credit_limit = 1000
    /\ invoices = <<[customer_id |-> "c1", amount |-> 400, status |-> "pending"],
                    [customer_id |-> "c1", amount |-> 200, status |-> "paid"],
                    [customer_id |-> "c1", amount |-> 100, status |-> "late"]>>
    /\ ret.value = 500

(* C14: a card payment whose card identifier is not exactly 16 characters,
   all digits, the first 4 or 5, is rejected before any tier handler runs. *)
C14_OnlyNumericCardsAccepted ==
    (calls # <<>> /\ req.method = "credit_card" /\ ~ValidCard(req))
    => calls[Last].handler = "reject" /\ calls[Last].result = "false"

(* C15: in the medium tier the payment record is in the store before the
   background thread is started, whatever the thread has done so far. *)
C15_PersistedBeforeThreadStarts ==
    \A k \in DOMAIN bg : bg[k].pc # "none" => RowsOf(k) # {}

(* the increase thread t was approved for on customer c, else 0 *)
ApprovedIncrease(t, c) ==
    IF th[t].customer_id = c /\ th[t].result = "true"
    THEN th[t].requested_increase ELSE 0

(* C16: once both concurrent approve_credit_increase calls, for positive
   increases on a customer whose limit is not negative, are over, the
   customer's limit is the initial limit plus the increases of exactly the
   approved calls. *)
C16_NoLostUpdate ==
    (\A t \in Threads : th[t].pc = "done" /\ th[t].requested_increase > 0)
    => \A c \in DOMAIN limit0 :
          limit0[c].credit_limit >= 0
          => customers[c].credit_limit
             = limit0[c].credit_limit
               + ApprovedIncrease("t1", c) + ApprovedIncrease("t2", c)

(* C18: a call that returned failure has no payment record in the store, at
   the moment it returns and at any later time. *)
C18_FailedCallLeavesNoRecord ==
    \A k \in DOMAIN calls : calls[k].result = "false" => RowsOf(k) = {}

(* the amounts of the pending and late invoices of c *)
PendingAndLate(c) ==
    SumAmounts(invoices, {i \in DOMAIN invoices :
        /\ invoices[i].customer_id = c
        /\ invoices[i].status \in {"pending", "late"}})

(* C19: close_account succeeds only for an existing customer whose pending
   and late invoices sum to no more than 0; on success the status is closed
   and the reason is recorded; on failure the customer records are as they
   were. *)
C19_CloseOnlyWhenSettled ==
    [][ret'.op = "close_account"
       => /\ ret'.result = "true"
             => /\ ret'.customer_id \in DOMAIN customers
                /\ PendingAndLate(ret'.customer_id) <= 0
                /\ customers'[ret'.customer_id].status = "closed"
                /\ customers'[ret'.customer_id].close_reason = ret'.arg
          /\ ret'.result # "true" => customers' = customers]_vars

(* an account with 400 pending and -400 late was closed for fraud *)
C19_Witness ==
    /\ ret.op = "close_account" /\ ret.result = "true" /\ ret.arg = "fraud"
    /\ customers["c1"].status = "closed"
    /\ customers["c1"].close_reason = "fraud"
    /\ \E i, j \in DOMAIN invoices :
          /\ invoices[i].customer_id = "c1" /\ invoices[i].status = "pending"
          /\ invoices[j].customer_id = "c1" /\ invoices[j].amount < 0
    /\ PendingAndLate("c1") = 0

(* C17: the end of the bounded wait leaves the background thread as it is,
   and a thread whose persistence succeeded eventually triggers the
   confirmation and finishes, whether or not process_payment has returned. *)
C17_ThreadOutlivesWait ==
    /\ [][(Joining /\ ~Joining') => bg' = bg]_vars
    /\ \A k \in 1..MaxCalls :
          (k \in DOMAIN bg /\ bg[k].success = "true")
          ~> (/\ k \in DOMAIN bg /\ bg[k].pc = "done"
              /\ KindOf(k, "confirmation") # {})

(* a medium call returned failure when its wait expired, and its thread has
   since stored the record, sent the confirmation and finished *)
C17_Witness ==
    \E k \in DOMAIN calls :
        /\ calls[k].handler = "_process_medium_payment"
        /\ calls[k].result = "false"
        /\ bg[k].success = "true" /\ bg[k].pc = "done"
        /\ RowsOf(k) # {}
        /\ \E i \in KindOf(k, "confirmation") : ~notices[i].awaited

=============================================================================
